---- MODULE Spec2Model ----
(***************************************************************************)
(* Model of penrose-web/src/engine/Evaluator.ts: the shape evaluation pass *)
(* (evalShapes), the path resolver and path store, and the binary          *)
(* operator table.                                                         *)
(*                                                                         *)
(* Encoding.  A JS object {tag: T, contents: c} is the tuple <<T, c>>, tag  *)
(* first, so that two objects of different tags are never compared         *)
(* component by component.  An object whose contents is undefined is the   *)
(* one-element tuple <<T>>.  An optional JS value is None (undefined) or   *)
(* Some(x).  Autodiff scalars (VarAD) are modelled by the integer they      *)
(* hold; a VarAD is an object and therefore always truthy.                  *)
(***************************************************************************)
EXTENDS Integers, Sequences, FiniteSets, TLC

VARIABLES
  translation,    \* s.translation, the caller's translation (a mutable object)
  varyingPaths,   \* s.varyingPaths
  varyingValues,  \* s.varyingValues
  varyingMap,     \* s.varyingMap
  params,         \* s.params (lastGradient, lastGradientPreconditioned)
  shapePaths,     \* s.shapePaths
  shapeOrdering,  \* s.shapeOrdering
  shapes,         \* s.shapes
  pc,             \* position of the running call
  trans,          \* the translation the running call evaluates on
  shapeExprs,     \* evalShapes: the FGPI entries found for shapePaths (live references into trans)
  shapesEvaled,   \* evalShapes: the accumulator of the reduce over shapeExprs
  evals,          \* number of evaluations of each cell's expression in the running pass
  pre,            \* the caller's state as it was when the running call was made
  call,           \* the exported function last called, with its arguments
  ret,            \* what that call returned or threw
  hist,           \* the calls made on trans so far, with what each returned
  json            \* the wire object handed to decodeState (a mutable object)

vars == <<translation, varyingPaths, varyingValues, varyingMap, params,
          shapePaths, shapeOrdering, shapes, pc, trans, shapeExprs,
          shapesEvaled, evals, pre, call, ret, hist, json>>

stateVars == <<translation, varyingPaths, varyingValues, varyingMap, params,
               shapePaths, shapeOrdering, shapes>>

passVars == <<pc, trans, shapeExprs, shapesEvaled, evals, pre>>

----------------------------------------------------------------------------
(* Bounds *)

\* numeric literals and operands range over 1..MaxNum
MaxNum == 2

\* vectors handed to the operator table have 1..MaxVecLen elements
MaxVecLen == 2

\* resolvePath is called at most MaxCalls times on one translation
MaxCalls == 2

----------------------------------------------------------------------------
(* Tagged values, optional values, outcomes *)

Tag(x) == x[1]

Contents(x) == x[2]

None == <<>>

Some(x) == <<x>>

IsSome(o) == Len(o) = 1

\* a JS exception
Throw(msg) == <<"throw", msg>>

IsThrow(r) == Tag(r) = "throw"

FloatV(n) == <<"FloatV", n>>

IntV(n) == <<"IntV", n>>

StrV(str) == <<"StrV", str>>

BoolV(b) == <<"BoolV", b>>

VectorV(v) == <<"VectorV", v>>

MatrixV(m) == <<"MatrixV", m>>

LListV(l) == <<"LListV", l>>

ListV(l) == <<"ListV", l>>

TupV(t) == <<"TupV", t>>

\* {tag: T, contents: undefined}
NoContents(T) == <<T>>

HasContents(v) == Len(v) = 2

Val(v) == <<"Val", v>>

GPI(type, props) == <<"GPI", <<type, props>>>>

\* the JS value undefined, where a tagged object is expected
Undefined == <<"undefined">>

\* TagExpr
OptEval(e) == <<"OptEval", e>>

Done(v) == <<"Done", v>>

Pending(v) == <<"Pending", v>>

\* FieldExpr
FExpr(te) == <<"FExpr", te>>

FGPI(type, props) == <<"FGPI", <<type, props>>>>

\* Path; a BindingForm is modelled by its contents, the substance name
FieldPath(name, field) == <<"FieldPath", <<name, field>>>>

PropertyPath(name, field, prop) == <<"PropertyPath", <<name, field, prop>>>>

AccessPath(inner, indices) == <<"AccessPath", <<inner, indices>>>>

\* Expr
IntLit(n) == <<"IntLit", n>>

StringLit(str) == <<"StringLit", str>>

Fix(n) == <<"AFloat", <<"Fix", n>>>>

Vary == <<"AFloat", <<"Vary">>>>

UOp(op, e) == <<"UOp", <<op, e>>>>

BinOp(op, e1, e2) == <<"BinOp", <<op, e1, e2>>>>

Vector(es) == <<"Vector", es>>

List(es) == <<"List", es>>

Tuple(es) == <<"Tuple", es>>

VectorAccess(path, e) == <<"VectorAccess", <<path, e>>>>

MatrixAccess(path, es) == <<"MatrixAccess", <<path, es>>>>

EPath(path) == <<"EPath", path>>

\* A JS object with string keys in insertion order: a sequence of <<key, value>>
dictHas(d, k) == \E i \in 1..Len(d) : d[i][1] = k

dictGet(d, k) == d[CHOOSE i \in 1..Len(d) : d[i][1] = k][2]

dictSet(d, k, v) ==
  IF dictHas(d, k)
  THEN [i \in 1..Len(d) |-> IF d[i][1] = k THEN <<k, v>> ELSE d[i]]
  ELSE Append(d, <<k, v>>)

\* arr[i] = v for a JS array and a 0-based index i with 0 <= i <= arr.length
arraySet(arr, i, v) ==
  IF i < Len(arr)
  THEN [j \in 1..Len(arr) |-> IF j = i + 1 THEN v ELSE arr[j]]
  ELSE Append(arr, v)

\* f[k] = v for a JS object used as a map
Put(f, k, v) == [x \in DOMAIN f \cup {k} |-> IF x = k THEN v ELSE f[x]]

\* JSON.stringify of a path: its canonical string form
JSONstringify(path) == ToString(path)

----------------------------------------------------------------------------
(* The autodiff primitive library (./Autodiff), over the integers *)

constOf(n) == n

differentiable(n) == n

add(a, b) == a + b

sub(a, b) == a - b

mul(a, b) == a * b

\* the quotient; divisors are never 0 in this model
div(a, b) == a \div b

neg(a) == 0 - a

vadd(v, w) == [i \in 1..Len(v) |-> add(v[i], w[i])]

vsub(v, w) == [i \in 1..Len(v) |-> sub(v[i], w[i])]

vmul(c, v) == [i \in 1..Len(v) |-> mul(c, v[i])]

vdiv(v, c) == [i \in 1..Len(v) |-> div(v[i], c)]

vneg(v) == [i \in 1..Len(v) |-> neg(v[i])]

\* utils/OtherUtils floatVal
floatVal(v) == Val(FloatV(v))

\* engine/EngineUtils valueAutodiffToNumber: the number each VarAD holds
valueAutodiffToNumber(v) == v

----------------------------------------------------------------------------
(* Op evaluator *)

BinaryOps == {"BPlus", "BMinus", "Multiply", "Divide", "Exp"}

intToFloat(v) == FloatV(constOf(Contents(v)))

RECURSIVE evalBinOp(_, _, _)
evalBinOp(op, v1, v2) ==
  IF Tag(v1) = "IntV" /\ Tag(v2) = "FloatV" THEN
    evalBinOp(op, intToFloat(v1), v2)
  ELSE IF Tag(v1) = "FloatV" /\ Tag(v2) = "IntV" THEN
    evalBinOp(op, v1, intToFloat(v2))
  ELSE IF Tag(v1) = "FloatV" /\ Tag(v2) = "FloatV" THEN
    CASE op = "BPlus" -> FloatV(add(Contents(v1), Contents(v2)))
      [] op = "BMinus" -> FloatV(sub(Contents(v1), Contents(v2)))
      [] op = "Multiply" -> FloatV(mul(Contents(v1), Contents(v2)))
      [] op = "Divide" -> FloatV(div(Contents(v1), Contents(v2)))
      [] op = "Exp" -> Throw("Pow op unimplemented")
      [] OTHER -> NoContents("FloatV")
  ELSE IF Tag(v1) = "IntV" /\ Tag(v2) = "IntV" THEN
    CASE op = "BPlus" -> IntV(Contents(v1) + Contents(v2))
      [] op = "BMinus" -> IntV(Contents(v1) - Contents(v2))
      [] op = "Multiply" -> IntV(Contents(v1) * Contents(v2))
      [] op = "Divide" -> FloatV(constOf(Contents(v1) \div Contents(v2)))
      [] op = "Exp" -> IntV(Contents(v1) ^ Contents(v2))
      [] OTHER -> NoContents("IntV")
  ELSE IF Tag(v1) = "VectorV" /\ Tag(v2) = "VectorV" THEN
    CASE op = "BPlus" -> VectorV(vadd(Contents(v1), Contents(v2)))
      [] op = "BMinus" -> VectorV(vsub(Contents(v1), Contents(v2)))
      [] OTHER -> NoContents("VectorV")
  ELSE IF Tag(v1) = "FloatV" /\ Tag(v2) = "VectorV" THEN
    CASE op = "Multiply" -> VectorV(vmul(Contents(v1), Contents(v2)))
      [] OTHER -> NoContents("VectorV")
  ELSE IF Tag(v1) = "VectorV" /\ Tag(v2) = "FloatV" THEN
    CASE op = "Divide" -> VectorV(vdiv(Contents(v1), Contents(v2)))
      [] OTHER -> NoContents("VectorV")
  ELSE
    Throw("the types of two operands are not supported")

----------------------------------------------------------------------------
(* Unary operations *)

evalUOp(op, arg) ==
  IF Tag(arg) = "FloatV" THEN
    CASE op = "UPlus" -> Throw("unary plus is undefined")
      [] op = "UMinus" -> FloatV(neg(Contents(arg)))
  ELSE IF Tag(arg) = "IntV" THEN
    CASE op = "UPlus" -> Throw("unary plus is undefined")
      [] op = "UMinus" -> IntV(0 - Contents(arg))
  ELSE IF Tag(arg) = "VectorV" THEN
    CASE op = "UPlus" -> Throw("unary plus is undefined")
      [] op = "UMinus" -> VectorV(vneg(Contents(arg)))
  ELSE
    Throw("unary op undefined on type")

----------------------------------------------------------------------------
(* Path store.  A translation is its trMap: name -> field -> FieldExpr.    *)

findExpr(t, path) ==
  CASE Tag(path) = "FieldPath" ->
         LET name == path[2][1]
             field == path[2][2]
         IN IF name \notin DOMAIN t THEN Throw("TypeError")
            ELSE IF field \notin DOMAIN t[name] THEN Throw("Could not find field")
            ELSE IF Tag(t[name][field]) = "FGPI" THEN t[name][field]
            ELSE Contents(t[name][field])
    [] Tag(path) = "PropertyPath" ->
         LET name == path[2][1]
             field == path[2][2]
             prop == path[2][3]
         IN IF name \notin DOMAIN t THEN Throw("TypeError")
            ELSE IF field \notin DOMAIN t[name] THEN Throw("Could not find GPI")
            ELSE IF Tag(t[name][field]) = "FExpr"
              THEN Throw("field path leads to an expression, not a GPI")
            ELSE LET propDict == t[name][field][2][2]
                 IN IF dictHas(propDict, prop) THEN dictGet(propDict, prop)
                    ELSE Undefined
    [] Tag(path) = "AccessPath" -> Throw("TODO")

floatValToExpr(e) ==
  IF Tag(e) # "FloatV" THEN Throw("expected to insert vector elem of type float")
  ELSE Fix(Contents(e))

\* the outcome of a write: the translation after it, and the exception if one was raised
Wrote(t) == [r |-> <<"ok">>, t |-> t]

Failed(msg, t) == [r |-> Throw(msg), t |-> t]

\* the vector write of insertExpr on the TagExpr res found at the inner path:
\* res with element indices[0] of its vector overwritten, or the exception
insertAccess(res, indices, expr) ==
  IF Tag(res) = "OptEval" THEN
    IF Tag(Contents(res)) # "Vector" THEN Throw("expected Vector")
    ELSE IF IsThrow(floatValToExpr(Contents(expr))) THEN floatValToExpr(Contents(expr))
    ELSE OptEval(Vector(
           arraySet(Contents(Contents(res)), indices[1], floatValToExpr(Contents(expr)))))
  ELSE IF Tag(res) = "Done" THEN
    IF Tag(Contents(res)) # "VectorV" THEN Throw("expected Vector")
    ELSE Done(VectorV(
           arraySet(Contents(Contents(res)), indices[1], Contents(Contents(expr)))))
  ELSE Throw("unexpected tag")

\* insertExpr with the write lost: the translation is returned as it was
insertExprWriteLost(path, expr, t) == Wrote(t)

insertExpr(path, expr, t) ==
  CASE Tag(path) = "FieldPath" ->
         LET name == path[2][1]
             field == path[2][2]
         IN IF name \notin DOMAIN t THEN Failed("TypeError", t)
            ELSE Wrote(Put(t, name, Put(t[name], field, FExpr(expr))))
    [] Tag(path) = "PropertyPath" ->
         LET name == path[2][1]
             field == path[2][2]
             prop == path[2][3]
         IN IF name \notin DOMAIN t THEN Failed("TypeError", t)
            ELSE IF field \notin DOMAIN t[name] THEN Failed("TypeError", t)
            ELSE IF Tag(t[name][field]) # "FGPI" THEN Failed("TypeError", t)
            ELSE LET gpi == t[name][field]
                     properties == gpi[2][2]
                 IN Wrote(Put(t, name, Put(t[name], field,
                      FGPI(gpi[2][1], dictSet(properties, prop, expr)))))
    [] Tag(path) = "AccessPath" ->
         LET innerPath == path[2][1]
             indices == path[2][2]
         IN CASE Tag(innerPath) = "FieldPath" ->
                   LET name == innerPath[2][1]
                       field == innerPath[2][2]
                   IN IF name \notin DOMAIN t THEN Failed("TypeError", t)
                      ELSE IF field \notin DOMAIN t[name] THEN Failed("TypeError", t)
                      ELSE IF Tag(t[name][field]) # "FExpr"
                        THEN Failed("did not expect GPI in vector access", t)
                      ELSE LET te == insertAccess(Contents(t[name][field]), indices, expr)
                           IN IF IsThrow(te) THEN Failed(te[2], t)
                              ELSE Wrote(Put(t, name, Put(t[name], field, FExpr(te))))
              [] Tag(innerPath) = "PropertyPath" ->
                   LET name == innerPath[2][1]
                       field == innerPath[2][2]
                       prop == innerPath[2][3]
                   IN IF name \notin DOMAIN t THEN Failed("TypeError", t)
                      ELSE IF field \notin DOMAIN t[name] THEN Failed("TypeError", t)
                      ELSE IF Tag(t[name][field]) # "FGPI" THEN Failed("TypeError", t)
                      ELSE IF ~dictHas(t[name][field][2][2], prop) THEN Failed("TypeError", t)
                      ELSE LET te == insertAccess(dictGet(t[name][field][2][2], prop),
                                                  indices, expr)
                           IN IF IsThrow(te) THEN Failed(te[2], t)
                              ELSE Wrote(Put(t, name, Put(t[name], field,
                                     FGPI(t[name][field][2][1],
                                          dictSet(t[name][field][2][2], prop, te)))))
              [] OTHER -> Failed("should not have nested AccessPath in AccessPath", t)

doneFloat(n) == Done(FloatV(n))

\* insertVaryings that stops after its first pair
insertVaryingsFirstOnly(t, varyingMapList) ==
  IF varyingMapList = <<>> THEN Wrote(t)
  ELSE insertExpr(Head(varyingMapList)[1], doneFloat(Head(varyingMapList)[2]), t)

\* varyingMap is the list of [path, value] pairs; a throw leaves the writes made before it
RECURSIVE insertVaryings(_, _)
insertVaryings(t, varyingMapList) ==
  IF varyingMapList = <<>> THEN Wrote(t)
  ELSE LET w == insertExpr(Head(varyingMapList)[1], doneFloat(Head(varyingMapList)[2]), t)
       IN IF IsThrow(w.r) THEN w ELSE insertVaryings(w.t, Tail(varyingMapList))

\* rfdc clone: a structurally equal copy that shares nothing with its argument
clone(t) == t

----------------------------------------------------------------------------
(* Path maps *)

EmptyMap == [k \in {} |-> 0]

\* genPathMap that keeps the first value of a repeated path
genPathMapFirstWins(paths, vals) ==
  IF ~IsSome(paths) \/ ~IsSome(vals) THEN <<"map", EmptyMap>>
  ELSE IF Len(vals[1]) # Len(paths[1])
    THEN Throw("Different numbers of varying vars vs. paths")
  ELSE LET ps == paths[1]
           keys == {JSONstringify(ps[i]) : i \in 1..Len(ps)}
           first(k) == CHOOSE i \in 1..Len(ps) :
                         /\ JSONstringify(ps[i]) = k
                         /\ \A j \in 1..Len(ps) : JSONstringify(ps[j]) = k => i <= j
       IN <<"map", [k \in keys |-> vals[1][first(k)]]>>

\* paths and vals are optional arrays; the result is <<"map", m>> or a throw
genPathMap(paths, vals) ==
  IF ~IsSome(paths) \/ ~IsSome(vals) THEN <<"map", EmptyMap>>
  ELSE IF Len(vals[1]) # Len(paths[1])
    THEN Throw("Different numbers of varying vars vs. paths")
  ELSE LET ps == paths[1]
           keys == {JSONstringify(ps[i]) : i \in 1..Len(ps)}
           last(k) == CHOOSE i \in 1..Len(ps) :
                        /\ JSONstringify(ps[i]) = k
                        /\ \A j \in 1..Len(ps) : JSONstringify(ps[j]) = k => j <= i
       IN <<"map", [k \in keys |-> vals[1][last(k)]]>>

\* m.get(k) of a Map
mapGet(m, k) == IF k \in DOMAIN m THEN Some(m[k]) ELSE None

zip(ps, vs) == [i \in 1..Len(ps) |-> <<ps[i], vs[i]>>]

----------------------------------------------------------------------------
(* Expression evaluator and path resolver.  An evaluation returns          *)
(* [r, t, c]: r the ArgVal or the exception, t the translation after the   *)
(* cache writes made on the way, c the evaluation counts after it.         *)

E(r, t, c) == [r |-> r, t |-> t, c |-> c]

\* one more evaluation of the expression stored at the cell with key k
Inc(c, k) == Put(c, k, IF k \in DOMAIN c THEN c[k] + 1 ELSE 1)

\* argVals.map(toFloatVal): <<"ok", numbers>> or the first exception
RECURSIVE toFloatVal(_)
toFloatVal(as) ==
  IF Len(as) = 0 THEN <<"ok", <<>>>>
  ELSE LET a == Head(as)
           rest == toFloatVal(Tail(as))
       IN IF Tag(a) # "Val" THEN Throw("Expected value (non-GPI) type in list")
          ELSE IF Tag(a[2]) \notin {"FloatV", "IntV"}
            THEN Throw("Expected floating type in list")
          ELSE IF IsThrow(rest) THEN rest
          ELSE <<"ok", <<IF Tag(a[2]) = "FloatV" THEN a[2][2] ELSE constOf(a[2][2])>>
                          \o rest[2]>>

\* argVals.map(toVecVal)
RECURSIVE toVecVal(_)
toVecVal(as) ==
  IF Len(as) = 0 THEN <<"ok", <<>>>>
  ELSE LET a == Head(as)
           rest == toVecVal(Tail(as))
       IN IF Tag(a) # "Val" THEN Throw("Expected value (non-GPI) type in list")
          ELSE IF Tag(a[2]) # "VectorV" THEN Throw("Expected vector type in list")
          ELSE IF IsThrow(rest) THEN rest
          ELSE <<"ok", <<a[2][2]>> \o rest[2]>>

\* the IntV indices of a MatrixAccess: <<"ok", numbers>> or the first exception
RECURSIVE indicesOf(_)
indicesOf(v2s) ==
  IF Len(v2s) = 0 THEN <<"ok", <<>>>>
  ELSE LET v2 == Head(v2s)
           rest == indicesOf(Tail(v2s))
       IN IF Tag(v2) # "Val" THEN Throw("expected val")
          ELSE IF Tag(v2[2]) # "IntV" THEN Throw("expected int")
          ELSE IF IsThrow(rest) THEN rest
          ELSE <<"ok", <<v2[2][2]>> \o rest[2]>>

\* the path an expression resolves before anything else, if it has one
HasPath(e) == Tag(e) \in {"EPath", "VectorAccess", "MatrixAccess"}

PathOf(e) == IF Tag(e) = "EPath" THEN e[2] ELSE e[2][1]

\* the sub-expressions an expression evaluates, in the order it evaluates them
SubExprs(e) ==
  CASE Tag(e) = "UOp" -> <<e[2][2]>>
    [] Tag(e) = "BinOp" -> <<e[2][2], e[2][3]>>
    [] Tag(e) \in {"Tuple", "List", "Vector"} -> e[2]
    [] Tag(e) = "VectorAccess" -> <<e[2][2]>>
    [] Tag(e) = "MatrixAccess" -> e[2][2]
    [] OTHER -> <<>>

\* a value, or the exception that computing it raised, as the ArgVal or exception
ValOr(v) == IF IsThrow(v) THEN v ELSE Val(v)

\* the VectorAccess of index v2 into the resolved v1
vectorAccess(v1, v2) ==
  IF Tag(v1) # "Val" THEN Throw("expected val")
  ELSE IF Tag(v2) # "Val" THEN Throw("expected val")
  ELSE IF Tag(v2[2]) # "IntV" THEN Throw("expected int")
  ELSE LET i == v2[2][2]
           arr == v1[2][2]
       IN IF Tag(v1[2]) = "LListV" THEN
            IF i < 0 \/ i > Len(arr) THEN Throw("access out of bounds")
            ELSE IF i = Len(arr) THEN Val(NoContents("VectorV"))
            ELSE Val(VectorV(arr[i + 1]))
          ELSE IF Tag(v1[2]) # "VectorV" THEN Throw("expected Vector")
          ELSE IF i < 0 \/ i > Len(arr) THEN Throw("access out of bounds")
          ELSE IF i = Len(arr) THEN Val(NoContents("FloatV"))
          ELSE Val(FloatV(arr[i + 1]))

\* matrixAccess with the column test of the vector case: j = vec.length passes
matrixAccessColumnOffByOne(v1, v2s) ==
  LET indices == indicesOf(v2s)
  IN IF IsThrow(indices) THEN indices
     ELSE IF Tag(v1) # "Val" THEN Throw("expected val")
     ELSE IF Tag(v1[2]) # "MatrixV" THEN Throw("expected Matrix")
     ELSE IF Len(indices[2]) # 2 THEN Throw("expected 2 indices to access matrix")
     ELSE LET mat == v1[2][2]
              i == indices[2][1]
              j == indices[2][2]
          IN IF i < 0 \/ i > Len(mat) - 1 THEN Throw("i access out of bounds")
             ELSE IF j < 0 \/ j > Len(mat[i + 1]) THEN Throw("j access out of bounds")
             ELSE IF j = Len(mat[i + 1]) THEN Val(NoContents("FloatV"))
             ELSE Val(FloatV(mat[i + 1][j + 1]))

\* the MatrixAccess of the evaluated indices v2s into the resolved v1
matrixAccess(v1, v2s) ==
  LET indices == indicesOf(v2s)
  IN IF IsThrow(indices) THEN indices
     ELSE IF Tag(v1) # "Val" THEN Throw("expected val")
     ELSE IF Tag(v1[2]) # "MatrixV" THEN Throw("expected Matrix")
     ELSE IF Len(indices[2]) # 2 THEN Throw("expected 2 indices to access matrix")
     ELSE LET mat == v1[2][2]
              i == indices[2][1]
              j == indices[2][2]
          IN IF i < 0 \/ i > Len(mat) - 1 THEN Throw("i access out of bounds")
             ELSE IF j < 0 \/ j > Len(mat[i + 1]) - 1 THEN Throw("j access out of bounds")
             ELSE Val(FloatV(mat[i + 1][j + 1]))

\* the Val of the floats or vectors of evaluated elements under the tag, or the exception
packed(elems, tag) == IF IsThrow(elems) THEN elems ELSE Val(<<tag, elems[2]>>)

\* what evalExpr makes of e once its path is resolved to v1 and its
\* sub-expressions are evaluated to argVals: the ArgVal or the exception
applyExpr(e, v1, argVals) ==
  CASE Tag(e) = "IntLit" -> Val(IntV(e[2]))
    [] Tag(e) = "StringLit" -> Val(StrV(e[2]))
    [] Tag(e) = "BoolLit" -> Val(BoolV(e[2]))
    [] Tag(e) = "AFloat" ->
         IF Tag(e[2]) = "Vary" THEN Throw("encountered an unsubstituted varying value")
         ELSE Val(FloatV(constOf(e[2][2])))
    [] Tag(e) = "UOp" -> ValOr(evalUOp(e[2][1], argVals[1][2]))
    [] Tag(e) = "BinOp" -> ValOr(evalBinOp(e[2][1], argVals[1][2], argVals[2][2]))
    [] Tag(e) = "Tuple" ->
         IF Len(argVals) # 2 THEN Throw("Expected tuple of length 2")
         ELSE packed(toFloatVal(argVals), "TupV")
    [] Tag(e) = "List" ->
         IF Len(argVals) = 0 THEN Val(ListV(<<>>))
         ELSE IF Tag(argVals[1]) # "Val" THEN Throw("unsupported element in list")
         ELSE IF Tag(argVals[1][2]) = "FloatV" THEN packed(toFloatVal(argVals), "ListV")
         ELSE IF Tag(argVals[1][2]) = "VectorV" THEN packed(toVecVal(argVals), "LListV")
         \* no return: control falls through to the ListAccess case
         ELSE Throw("List access expression not (yet) supported")
    [] Tag(e) = "ListAccess" -> Throw("List access expression not (yet) supported")
    [] Tag(e) = "Vector" ->
         IF Len(argVals) = 0 THEN Throw("TypeError")
         ELSE IF Tag(argVals[1]) # "Val" THEN Throw("expected val")
         ELSE IF Tag(argVals[1][2]) = "VectorV" THEN packed(toVecVal(argVals), "MatrixV")
         ELSE packed(toFloatVal(argVals), "VectorV")
    [] Tag(e) = "Matrix" -> Throw("cannot evaluate expression of type Matrix")
    [] Tag(e) = "VectorAccess" -> vectorAccess(v1, argVals[1])
    [] Tag(e) = "MatrixAccess" -> matrixAccess(v1, argVals)
    [] Tag(e) = "EPath" -> v1
    \* CompApp calls into the function library and is not among the expressions
    \* modelled; any other tag reaches the default case
    [] OTHER -> Throw("cannot evaluate expression of type")

RECURSIVE evalExpr(_, _, _, _)
RECURSIVE evalExprs(_, _, _, _)
RECURSIVE resolvePath(_, _, _, _)
RECURSIVE resolveProps(_, _, _, _, _, _)
RECURSIVE resolveInTranslation(_, _, _, _)

\* the evaluated list a with the ArgVal hd in front
consArgVal(hd, a) ==
  IF IsThrow(a.r) THEN a ELSE E(<<"list", <<hd>> \o a.r[2]>>, a.t, a.c)

\* es.map(e => evalExpr(e, ...)) after its first element was evaluated to h
evalRest(rest, V, h) ==
  IF IsThrow(h.r) THEN h ELSE consArgVal(h.r, evalExprs(rest, h.t, h.c, V))

evalExprs(es, t, c, V) ==
  IF Len(es) = 0 THEN E(<<"list", <<>>>>, t, c)
  ELSE evalRest(Tail(es), V, evalExpr(Head(es), t, c, V))

\* evalExpr after the sub-expressions of e were evaluated to a
afterArgs(e, v1, a) ==
  IF IsThrow(a.r) THEN a ELSE E(applyExpr(e, v1, a.r[2]), a.t, a.c)

\* evalExpr after the path of e was resolved to p
afterPath(e, V, p) ==
  IF IsThrow(p.r) THEN p ELSE afterArgs(e, p.r, evalExprs(SubExprs(e), p.t, p.c, V))

\* every case of evalExpr resolves its path first (if it has one), then evaluates
\* its sub-expressions from left to right, then computes its value
evalExpr(e, t, c, V) ==
  afterPath(e, V, IF HasPath(e) THEN resolvePath(PathOf(e), t, c, V) ELSE E(<<"none">>, t, c))

\* writeBack that caches a placeholder float and not the value
writeBackPlaceholder(path, res, asVal) ==
  IF IsThrow(res.r) THEN res
  ELSE IF Tag(res.r) # "Val"
    THEN E(Throw("Field expression evaluated to GPI when this case was eliminated"),
           res.t, res.c)
  ELSE E(IF asVal THEN res.r ELSE res.r[2], insertExpr(path, Done(FloatV(0)), res.t).t, res.c)

\* the write of Done at path after the cell's expression evaluated to res;
\* asVal tells the field case (the ArgVal is returned) from the property case of
\* an FGPI (the value is returned)
writeBack(path, res, asVal) ==
  IF IsThrow(res.r) THEN res
  ELSE IF Tag(res.r) # "Val"
    THEN E(Throw("Field expression evaluated to GPI when this case was eliminated"),
           res.t, res.c)
  ELSE E(IF asVal THEN res.r ELSE res.r[2], insertExpr(path, Done(res.r[2]), res.t).t, res.c)

\* one property of the mapValues of resolvePath over the FGPI at the FieldPath path
resolveProp(path, propName, t, c, V) ==
  LET propertyPath == PropertyPath(path[2][1], path[2][2], propName)
      p == dictGet(t[path[2][1]][path[2][2]][2][2], propName)
      varyingVal == mapGet(V, JSONstringify(propertyPath))
  IN IF Tag(p) = "OptEval"
     THEN writeBack(propertyPath, evalExpr(EPath(propertyPath), t, c, V), FALSE)
     ELSE IF IsSome(varyingVal) THEN E(FloatV(varyingVal[1]), t, c)
     ELSE E(Contents(p), t, c)

\* the mapValues after the property propName was evaluated to pr
resolvePropsRest(path, rest, V, acc, propName, pr) ==
  IF IsThrow(pr.r) THEN pr
  ELSE resolveProps(path, rest, pr.t, pr.c, V, Append(acc, <<propName, pr.r>>))

\* the mapValues over the properties of the FGPI at the FieldPath path:
\* names are the keys taken when the iteration starts, each property is read when reached
resolveProps(path, names, t, c, V, acc) ==
  IF Len(names) = 0 THEN E(<<"props", acc>>, t, c)
  ELSE resolvePropsRest(path, Tail(names), V, acc, Head(names),
                        resolveProp(path, Head(names), t, c, V))

\* the GPI of the evaluated properties ps
gpiOf(type, ps) == IF IsThrow(ps.r) THEN ps ELSE E(GPI(type, ps.r[2]), ps.t, ps.c)

\* resolvePath consulting the cache first: a Done or Pending cell wins over the varying map
resolvePathCacheFirst(path, t, c, V) ==
  IF Tag(path) # "AccessPath" /\ Tag(findExpr(t, path)) \in {"Done", "Pending"}
  THEN resolveInTranslation(path, t, c, V)
  ELSE IF JSONstringify(path) \in DOMAIN V THEN E(floatVal(V[JSONstringify(path)]), t, c)
  ELSE resolveInTranslation(path, t, c, V)

\* V is the varying map.  Its values are VarAD objects, which are truthy, so
\* if (varyingVal) holds exactly when the map has the key.
resolvePath(path, t, c, V) ==
  LET varyingVal == mapGet(V, JSONstringify(path))
  IN IF IsSome(varyingVal) THEN E(floatVal(varyingVal[1]), t, c)
     ELSE resolveInTranslation(path, t, c, V)

\* the else branch of resolvePath: the path is looked up in the translation
resolveInTranslation(path, t, c, V) ==
  IF Tag(path) = "AccessPath" THEN E(Throw("TODO"), t, c)
  ELSE LET gpiOrExpr == findExpr(t, path)
       IN CASE IsThrow(gpiOrExpr) -> E(gpiOrExpr, t, c)
            [] Tag(gpiOrExpr) = "undefined" -> E(Throw("TypeError"), t, c)
            [] Tag(gpiOrExpr) = "FGPI" ->
                 gpiOf(gpiOrExpr[2][1],
                       resolveProps(path,
                                    [i \in 1..Len(gpiOrExpr[2][2]) |-> gpiOrExpr[2][2][i][1]],
                                    t, c, V, <<>>))
            [] Tag(gpiOrExpr) = "OptEval" ->
                 writeBack(path,
                           evalExpr(Contents(gpiOrExpr), t, Inc(c, JSONstringify(path)), V),
                           TRUE)
            [] Tag(gpiOrExpr) \in {"Done", "Pending"} -> E(Val(Contents(gpiOrExpr)), t, c)
            [] OTHER -> E(Throw("Unexpected tag"), t, c)

----------------------------------------------------------------------------
(* Shape evaluator *)

Shape(shapeType, properties) == <<"Shape", shapeType, properties>>

\* the display value of an evaluated property, or the exception
projected(ev) ==
  IF IsThrow(ev.r) THEN ev ELSE E(valueAutodiffToNumber(ev.r[2]), ev.t, ev.c)

\* one property of the mapValues of evalShape over the FGPI at the FieldPath path
evalProp(path, propName, t, c, V) ==
  LET propertyPath == PropertyPath(path[2][1], path[2][2], propName)
      prop == dictGet(t[path[2][1]][path[2][2]][2][2], propName)
  IN IF Tag(prop) = "OptEval"
     THEN projected(evalExpr(Contents(prop), t, Inc(c, JSONstringify(propertyPath)), V))
     ELSE E(valueAutodiffToNumber(Contents(prop)), t, c)

RECURSIVE evalProps(_, _, _, _, _, _)

\* the mapValues after the property propName was evaluated to pr
evalPropsRest(path, rest, V, acc, propName, pr) ==
  IF IsThrow(pr.r) THEN pr
  ELSE evalProps(path, rest, pr.t, pr.c, V, Append(acc, <<propName, pr.r>>))

\* the mapValues over propExprs of evalShape, for the FGPI at the FieldPath path
evalProps(path, names, t, c, V, acc) ==
  IF Len(names) = 0 THEN E(<<"props", acc>>, t, c)
  ELSE evalPropsRest(path, Tail(names), V, acc, Head(names),
                     evalProp(path, Head(names), t, c, V))

\* the shapes with the shape of the evaluated properties props added
withShape(currShapes, shapeType, props) ==
  IF IsThrow(props.r) THEN props
  ELSE E(<<"shapes", Append(currShapes, Shape(shapeType, props.r[2]))>>, props.t, props.c)

\* shapeExpr is the entry found for the shape path p; it is read through p
\* because the resolver's cache writes change the entry's property dictionary in place
evalShape(p, t, c, V, currShapes) ==
  LET shapeExpr == findExpr(t, p)
  IN IF Tag(shapeExpr) # "FGPI" THEN E(Throw("TypeError"), t, c)
     ELSE withShape(currShapes, shapeExpr[2][1],
                    evalProps(p, [i \in 1..Len(shapeExpr[2][2]) |-> shapeExpr[2][2][i][1]],
                              t, c, V, <<>>))

\* shapesEvaled.find(({ properties }) => properties.name.contents === name):
\* the shape found, Undefined when there is none, a throw at a shape without a name
RECURSIVE findShape(_, _)
findShape(ss, name) ==
  IF Len(ss) = 0 THEN Undefined
  ELSE IF ~dictHas(Head(ss)[3], "name") THEN Throw("TypeError")
  ELSE LET nm == dictGet(Head(ss)[3], "name")
       IN IF Tag(nm) = "StrV" /\ HasContents(nm) /\ Contents(nm) = name THEN Head(ss)
          ELSE findShape(Tail(ss), name)

\* s.shapeOrdering.map(name => shapesEvaled.find(...))
RECURSIVE sortShapes(_, _)
sortShapes(ordering, ss) ==
  IF Len(ordering) = 0 THEN <<"shapes", <<>>>>
  ELSE LET f == findShape(ss, Head(ordering))
           rest == sortShapes(Tail(ordering), ss)
       IN IF IsThrow(f) THEN f
          ELSE IF IsThrow(rest) THEN rest
          ELSE <<"shapes", <<f>> \o rest[2]>>

----------------------------------------------------------------------------
(* Inputs: translations of two substances A and B, each with a shape.      *)

pAx == FieldPath("A", "x")

pAv == FieldPath("A", "v")

pAshape == FieldPath("A", "shape")

pBshape == FieldPath("B", "shape")

pAr == PropertyPath("A", "shape", "r")

pBside == PropertyPath("B", "shape", "side")

\* the cells a translation is assembled from
AxCells ==
  {OptEval(Fix(n)) : n \in 1..MaxNum}
    \cup {OptEval(Vary), Done(FloatV(1)), OptEval(BinOp("BPlus", IntLit(1), Fix(1)))}

AvCells == {OptEval(Vector(<<Fix(1), Fix(2)>>)), Done(VectorV(<<1, 2>>))}

ArCells ==
  {OptEval(EPath(pAx)), OptEval(Fix(2)), Done(FloatV(2)),
   OptEval(VectorAccess(pAv, IntLit(0)))}

BsideCells ==
  {OptEval(EPath(pAr)), OptEval(BinOp("BPlus", EPath(pAr), EPath(pAx))), Done(FloatV(1))}

Translation(ax, av, ar, bside) ==
  [A |-> [x |-> FExpr(ax), v |-> FExpr(av),
          shape |-> FGPI("Circle", <<(<<"name", Done(StrV("A"))>>), (<<"r", ar>>)>>)],
   B |-> [shape |-> FGPI("Square", <<(<<"name", OptEval(StringLit("B"))>>),
                                     (<<"side", bside>>)>>)]]

Translations ==
  {Translation(ax, av, ar, bside) :
     ax \in AxCells, av \in AvCells, ar \in ArCells, bside \in BsideCells}

\* the varying paths of a state and the values the optimizer supplies for them
VaryingInputs ==
  {<<(<<>>), (<<>>)>>,
   <<(<<pAx>>), (<<7>>)>>,
   <<(<<pAr>>), (<<7>>)>>,
   <<(<<AccessPath(pAv, <<0>>)>>), (<<7>>)>>,
   <<(<<pAx, AccessPath(pAv, <<1>>)>>), (<<7, 8>>)>>,
   <<(<<pAx, pAr>>), (<<7>>)>>,
   <<(<<pAx, PropertyPath("B", "nope", "q")>>), (<<7, 8>>)>>,
   <<(<<AccessPath(pAx, <<0>>)>>), (<<7>>)>>}

ParamsFor(paths) ==
  LET zeros(n) == [i \in 1..n |-> 0]
  IN {[lastGradient |-> None, lastGradientPreconditioned |-> None],
      [lastGradient |-> Some(zeros(Len(paths))),
       lastGradientPreconditioned |-> Some(zeros(Len(paths)))],
      [lastGradient |-> Some(zeros(Len(paths))),
       lastGradientPreconditioned |-> Some(zeros(Len(paths) + 1))]}

ShapePathInputs ==
  {<<pAshape, pBshape>>, <<pBshape, pAshape>>, <<pAshape>>,
   <<pAshape, pAx>>, <<FieldPath("A", "nope")>>}

ShapeOrderingInputs == {<<"A", "B">>, <<"B", "A">>, <<"A">>, <<"A", "C">>}

\* the varying map a state carries before a pass: the one of the previous values
StaleMap(paths) ==
  [k \in {JSONstringify(paths[i]) : i \in 1..Len(paths)} |-> 0]

----------------------------------------------------------------------------
(* evalShapes, in three steps: up to the lookup of the shape expressions,   *)
(* one step per shape of the reduce, and the sort and return.               *)

Init ==
  /\ translation \in Translations
  /\ \E vi \in VaryingInputs :
       /\ varyingPaths = vi[1]
       /\ varyingValues = vi[2]
       /\ varyingMap = StaleMap(vi[1])
       /\ params \in ParamsFor(vi[1])
  /\ shapePaths \in ShapePathInputs
  /\ shapeOrdering \in ShapeOrderingInputs
  /\ shapes = <<>>
  /\ pc = "idle"
  /\ trans = [n \in {} |-> 0]
  /\ shapeExprs = <<>>
  /\ shapesEvaled = <<>>
  /\ evals = EmptyMap
  /\ pre = [translation |-> translation, varyingMap |-> varyingMap, shapes |-> shapes]
  /\ call = <<"none">>
  /\ ret = <<"none">>
  /\ hist = <<>>
  /\ json = <<>>

\* the first exception of shapePaths.map(p => findExpr(trans, p)), or <<"ok">>
RECURSIVE findShapeExprs(_, _)
findShapeExprs(t, paths) ==
  IF Len(paths) = 0 THEN <<"ok">>
  ELSE IF IsThrow(findExpr(t, Head(paths))) THEN findExpr(t, Head(paths))
  ELSE findShapeExprs(t, Tail(paths))

\* lines 45-70 of evalShapes: what each assignment leaves behind and how the part ends
evalShapesPrepare(s) ==
  LET varyingValuesDiff == [i \in 1..Len(s.varyingValues) |-> differentiable(s.varyingValues[i])]
      m == genPathMap(Some(s.varyingPaths), Some(varyingValuesDiff))
      g1 == genPathMap(Some(s.varyingPaths), s.params.lastGradient)
      g2 == genPathMap(Some(s.varyingPaths), s.params.lastGradientPreconditioned)
      transWithVarying == insertVaryings(s.translation, zip(s.varyingPaths, varyingValuesDiff))
      found == findShapeExprs(clone(transWithVarying.t), s.shapePaths)
      none == [n \in {} |-> 0]
  IN IF IsThrow(m)
       THEN [varyingMap |-> s.varyingMap, translation |-> s.translation, trans |-> none, r |-> m]
     ELSE IF IsThrow(g1)
       THEN [varyingMap |-> m[2], translation |-> s.translation, trans |-> none, r |-> g1]
     ELSE IF IsThrow(g2)
       THEN [varyingMap |-> m[2], translation |-> s.translation, trans |-> none, r |-> g2]
     ELSE IF IsThrow(transWithVarying.r)
       THEN [varyingMap |-> m[2], translation |-> transWithVarying.t, trans |-> none,
             r |-> transWithVarying.r]
     ELSE [varyingMap |-> m[2], translation |-> transWithVarying.t,
           trans |-> clone(transWithVarying.t), r |-> found]

evalShapesBegin ==
  /\ pc = "idle"
  /\ LET o == evalShapesPrepare([varyingValues |-> varyingValues, varyingPaths |-> varyingPaths,
                                 varyingMap |-> varyingMap, params |-> params,
                                 translation |-> translation, shapePaths |-> shapePaths])
     IN /\ varyingMap' = o.varyingMap
        /\ translation' = o.translation
        /\ trans' = o.trans
        /\ pc' = IF IsThrow(o.r) THEN "threw" ELSE "shapes"
        /\ ret' = IF IsThrow(o.r) THEN o.r ELSE <<"none">>
        /\ shapeExprs' = IF IsThrow(o.r) THEN <<>> ELSE shapePaths
  /\ pre' = [translation |-> translation, varyingMap |-> varyingMap, shapes |-> shapes]
  /\ call' = <<"evalShapes">>
  /\ shapesEvaled' = <<>>
  /\ evals' = EmptyMap
  /\ UNCHANGED <<varyingPaths, varyingValues, params, shapePaths, shapeOrdering, shapes, hist, json>>

\* one iteration of the reduce of lines 73-77
evalShapesShape ==
  /\ pc = "shapes"
  /\ Len(shapesEvaled) < Len(shapeExprs)
  /\ LET o == evalShape(shapeExprs[Len(shapesEvaled) + 1], trans, evals, varyingMap,
                        shapesEvaled)
     IN /\ trans' = o.t
        /\ evals' = o.c
        /\ pc' = IF IsThrow(o.r) THEN "threw" ELSE "shapes"
        /\ ret' = IF IsThrow(o.r) THEN o.r ELSE ret
        /\ shapesEvaled' = IF IsThrow(o.r) THEN shapesEvaled ELSE o.r[2]
  /\ UNCHANGED <<stateVars, shapeExprs, pre, call, hist, json>>

\* lines 79-91: the returned state is a copy of s with the sorted shapes
evalShapesReturn ==
  /\ pc = "shapes"
  /\ Len(shapesEvaled) = Len(shapeExprs)
  /\ LET sortedShapesEvaled == sortShapes(shapeOrdering, shapesEvaled)
     IN /\ pc' = IF IsThrow(sortedShapesEvaled) THEN "threw" ELSE "done"
        /\ ret' = IF IsThrow(sortedShapesEvaled) THEN sortedShapesEvaled
                  ELSE <<"return", sortedShapesEvaled[2]>>
  /\ UNCHANGED <<stateVars, trans, shapeExprs, shapesEvaled, evals, pre, call, hist, json>>

Next == evalShapesBegin \/ evalShapesShape \/ evalShapesReturn

Spec == Init /\ [][Next]_vars

----------------------------------------------------------------------------
(* Calls of the exported resolvePath on one translation with one varying   *)
(* map, as the evaluation of function arguments (evalFns) makes them: the   *)
(* translation either has the varying values inserted or has not.           *)

ResolveVaryingInputs ==
  {vi \in VaryingInputs :
     vi[1] \in {<<>>, <<pAx>>, <<pAr>>, <<AccessPath(pAv, <<0>>)>>}}

ResolvePaths ==
  {pAx, pAv, pAr, pBside, pAshape, pBshape, AccessPath(pAv, <<0>>)}

InitResolve ==
  /\ translation \in Translations
  /\ \E vi \in ResolveVaryingInputs :
       /\ varyingPaths = vi[1]
       /\ varyingValues = vi[2]
       /\ varyingMap = genPathMap(Some(vi[1]), Some(vi[2]))[2]
       /\ trans \in {clone(translation),
                     clone(insertVaryings(translation, zip(vi[1], vi[2])).t)}
  /\ params = [lastGradient |-> None, lastGradientPreconditioned |-> None]
  /\ shapePaths = <<>>
  /\ shapeOrdering = <<>>
  /\ shapes = <<>>
  /\ pc = "resolve"
  /\ shapeExprs = <<>>
  /\ shapesEvaled = <<>>
  /\ evals = EmptyMap
  /\ pre = [translation |-> translation, varyingMap |-> varyingMap, shapes |-> shapes]
  /\ call = <<"none">>
  /\ ret = <<"none">>
  /\ hist = <<>>
  /\ json = <<>>

resolvePathCall(p) ==
  /\ pc = "resolve"
  /\ Len(hist) < MaxCalls
  /\ LET o == resolvePath(p, trans, evals, varyingMap)
     IN /\ trans' = o.t
        /\ evals' = o.c
        /\ call' = <<"resolvePath", p>>
        /\ ret' = o.r
        /\ hist' = Append(hist, [path |-> p, ret |-> o.r, before |-> trans, after |-> o.t,
                                 evalsBefore |-> evals, evalsAfter |-> o.c])
  /\ UNCHANGED <<stateVars, pc, shapeExprs, shapesEvaled, pre, json>>

NextResolve == \E p \in ResolvePaths : resolvePathCall(p)

SpecResolve == InitResolve /\ [][NextResolve]_vars

----------------------------------------------------------------------------
(* Calls of evalBinOp on operands of every kind *)

Nums == 1..MaxNum

Vectors == UNION {[1..n -> Nums] : n \in 1..MaxVecLen}

OperandValues ==
  {FloatV(n) : n \in Nums} \cup {IntV(n) : n \in Nums}
    \cup {VectorV(v) : v \in Vectors} \cup {StrV("a"), BoolV(TRUE)}

InitBinOp ==
  /\ translation = [n \in {} |-> 0]
  /\ varyingPaths = <<>>
  /\ varyingValues = <<>>
  /\ varyingMap = EmptyMap
  /\ params = [lastGradient |-> None, lastGradientPreconditioned |-> None]
  /\ shapePaths = <<>>
  /\ shapeOrdering = <<>>
  /\ shapes = <<>>
  /\ pc = "ops"
  /\ trans = [n \in {} |-> 0]
  /\ shapeExprs = <<>>
  /\ shapesEvaled = <<>>
  /\ evals = EmptyMap
  /\ pre = [translation |-> translation, varyingMap |-> varyingMap, shapes |-> shapes]
  /\ call = <<"none">>
  /\ ret = <<"none">>
  /\ hist = <<>>
  /\ json = <<>>

\* the vector operations of the autodiff library take sequences of the same length
evalBinOpCall(op, v1, v2) ==
  /\ pc = "ops"
  /\ (Tag(v1) = "VectorV" /\ Tag(v2) = "VectorV") => Len(Contents(v1)) = Len(Contents(v2))
  /\ call' = <<"evalBinOp", op, v1, v2>>
  /\ ret' = evalBinOp(op, v1, v2)
  /\ UNCHANGED <<stateVars, passVars, hist, json>>

NextBinOp ==
  \E op \in BinaryOps : \E v1 \in OperandValues : \E v2 \in OperandValues :
    evalBinOpCall(op, v1, v2)

SpecBinOp == InitBinOp /\ [][NextBinOp]_vars

----------------------------------------------------------------------------
(* Calls of evalExpr on the access expressions A.v[i] and A.v[i][j], for a  *)
(* field A.v that holds a vector, a list of vectors or a matrix.            *)

\* a rows x cols matrix whose entry tells its row and its column
MatrixOf(rows, cols) == [i \in 1..rows |-> [j \in 1..cols |-> 10 * i + j]]

\* the cells of A.v: cached vectors, lists of vectors and matrices, and the
\* vector and matrix expressions that evaluate to them
AccessCells ==
  {Done(VectorV(v)) : v \in Vectors}
    \cup {Done(LListV([k \in 1..n |-> <<k, k + 1>>])) : n \in 1..MaxVecLen}
    \cup {Done(MatrixV(MatrixOf(r, c))) : r \in 1..MaxVecLen, c \in 1..MaxVecLen}
    \cup {OptEval(Vector(<<Fix(1), Fix(2)>>)),
          OptEval(Vector(<<Vector(<<Fix(1), Fix(2)>>), Vector(<<Fix(3), Fix(4)>>)>>)),
          Done(FloatV(1))}

\* index expressions: the literals 0..MaxVecLen and -1
IndexLits == {IntLit(i) : i \in 0..MaxVecLen} \cup {UOp("UMinus", IntLit(1))}

\* the integer an index literal denotes
intOf(e) == IF Tag(e) = "IntLit" THEN e[2] ELSE 0 - e[2][2][2]

AccessExprs ==
  {VectorAccess(pAv, e) : e \in IndexLits \cup {Fix(0)}}
    \cup {MatrixAccess(pAv, <<e1, e2>>) : e1 \in IndexLits, e2 \in IndexLits}
    \cup {MatrixAccess(pAv, <<>>), MatrixAccess(pAv, <<IntLit(0)>>),
          MatrixAccess(pAv, <<IntLit(0), IntLit(0), IntLit(0)>>),
          MatrixAccess(pAv, <<IntLit(0), Fix(0)>>)}

InitAccess ==
  /\ translation \in {Translation(OptEval(Fix(1)), av, Done(FloatV(2)), Done(FloatV(1))) :
                         av \in AccessCells}
  /\ varyingPaths = <<>>
  /\ varyingValues = <<>>
  /\ varyingMap = EmptyMap
  /\ params = [lastGradient |-> None, lastGradientPreconditioned |-> None]
  /\ shapePaths = <<>>
  /\ shapeOrdering = <<>>
  /\ shapes = <<>>
  /\ pc = "access"
  /\ trans = clone(translation)
  /\ shapeExprs = <<>>
  /\ shapesEvaled = <<>>
  /\ evals = EmptyMap
  /\ pre = [translation |-> translation, varyingMap |-> varyingMap, shapes |-> shapes]
  /\ call = <<"none">>
  /\ ret = <<"none">>
  /\ hist = <<>>
  /\ json = <<>>

evalExprCall(e) ==
  /\ pc = "access"
  /\ LET o == evalExpr(e, trans, EmptyMap, varyingMap)
     IN /\ trans' = o.t
        /\ ret' = o.r
  /\ call' = <<"evalExpr", e>>
  /\ UNCHANGED <<stateVars, pc, shapeExprs, shapesEvaled, evals, pre, hist, json>>

NextAccess == \E e \in AccessExprs : evalExprCall(e)

SpecAccess == InitAccess /\ [][NextAccess]_vars

----------------------------------------------------------------------------
(* Calls of the path store (findExpr, insertExpr, insertVaryings) and of     *)
(* genPathMap, one call on each translation.                                *)

\* the cells of the fields A.x and A.v and of the property A.shape.r
StoreAxCells == {OptEval(Fix(1)), Pending(FloatV(1))}

StoreAvCells ==
  {OptEval(Vector(<<Fix(1), Fix(2)>>)), Done(VectorV(<<1, 2>>)), Pending(VectorV(<<1, 2>>)),
   Done(MatrixV(MatrixOf(2, 2))),
   OptEval(Vector(<<Vector(<<Fix(1), Fix(2)>>), Vector(<<Fix(3), Fix(4)>>)>>))}

StoreArCells ==
  {Done(FloatV(2)), OptEval(Vector(<<Fix(1), Fix(2)>>)), Done(VectorV(<<1, 2>>)),
   Pending(VectorV(<<1, 2>>))}

StoreTranslations ==
  {Translation(ax, av, ar, Done(FloatV(1))) :
     ax \in StoreAxCells, av \in StoreAvCells, ar \in StoreArCells}

\* paths of every kind: to cells that exist, to names, fields and properties
\* that do not, access paths with one and with two indices, and nested ones
StorePaths ==
  {pAx, pAv, pAshape, pAr, pBside,
   FieldPath("C", "x"), FieldPath("A", "nope"),
   PropertyPath("C", "shape", "r"), PropertyPath("A", "nope", "r"),
   PropertyPath("A", "shape", "nope"), PropertyPath("A", "x", "r"),
   AccessPath(pAv, <<0>>), AccessPath(pAv, <<1>>), AccessPath(pAr, <<0>>),
   AccessPath(pAx, <<0>>), AccessPath(pAshape, <<0>>),
   AccessPath(pAv, <<0, 1>>), AccessPath(pAv, <<1, 0>>), AccessPath(pAr, <<1, 0>>),
   AccessPath(AccessPath(pAv, <<0>>), <<1>>)}

\* the expressions written: cached floats, as insertVaryings and resolvePath write
StoreExprs == {Done(FloatV(n)) : n \in {7, 8}}

\* lists of [path, value] pairs with distinct paths, none of which names a cell
\* inside the cell another one names
VaryingPairInputs ==
  {<<(<<pAx, 7>>)>>,
   <<(<<pAr, 7>>)>>,
   <<(<<AccessPath(pAv, <<0>>), 7>>)>>,
   <<(<<pAx, 7>>), (<<pBside, 8>>)>>,
   <<(<<AccessPath(pAv, <<0>>), 7>>), (<<AccessPath(pAv, <<1>>), 8>>)>>,
   <<(<<AccessPath(pAv, <<1>>), 8>>), (<<pAx, 7>>)>>,
   <<(<<AccessPath(pAr, <<0>>), 7>>), (<<pBside, 8>>)>>,
   <<(<<pBside, 7>>), (<<pAx, 8>>), (<<AccessPath(pAv, <<0>>), 9>>)>>,
   <<(<<pAx, 7>>), (<<PropertyPath("B", "nope", "q"), 8>>)>>}

\* optional arrays of paths and of values
PathArrays == {None, Some(<<>>), Some(<<pAx>>), Some(<<pAx, pAr>>), Some(<<pAx, pAx>>)}

ValueArrays == {None, Some(<<>>), Some(<<7>>), Some(<<7, 8>>), Some(<<7, 8, 9>>)}

InitStore ==
  /\ translation \in StoreTranslations
  /\ varyingPaths = <<>>
  /\ varyingValues = <<>>
  /\ varyingMap = EmptyMap
  /\ params = [lastGradient |-> None, lastGradientPreconditioned |-> None]
  /\ shapePaths = <<>>
  /\ shapeOrdering = <<>>
  /\ shapes = <<>>
  /\ pc = "store"
  /\ trans = clone(translation)
  /\ shapeExprs = <<>>
  /\ shapesEvaled = <<>>
  /\ evals = EmptyMap
  /\ pre = [translation |-> translation, varyingMap |-> varyingMap, shapes |-> shapes]
  /\ call = <<"none">>
  /\ ret = <<"none">>
  /\ hist = <<>>
  /\ json = <<>>

\* what a call of the store leaves in trans and returns
storeCall(c, w) ==
  /\ pc = "store"
  /\ call[1] = "none"
  /\ call' = c
  /\ trans' = w.t
  /\ ret' = w.r
  /\ UNCHANGED <<stateVars, pc, shapeExprs, shapesEvaled, evals, pre, hist, json>>

findExprCall(path) ==
  storeCall(<<"findExpr", path>>, [r |-> findExpr(trans, path), t |-> trans])

insertExprCall(path, expr) ==
  storeCall(<<"insertExpr", path, expr>>, insertExpr(path, expr, trans))

insertVaryingsCall(pairs) ==
  storeCall(<<"insertVaryings", pairs>>, insertVaryings(trans, pairs))

genPathMapCall(paths, vals) ==
  storeCall(<<"genPathMap", paths, vals>>, [r |-> genPathMap(paths, vals), t |-> trans])

NextStore ==
  \/ \E path \in StorePaths : findExprCall(path)
  \/ \E path \in StorePaths : \E expr \in StoreExprs : insertExprCall(path, expr)
  \/ \E pairs \in VaryingPairInputs : insertVaryingsCall(pairs)
  \/ \E paths \in PathArrays : \E vals \in ValueArrays : genPathMapCall(paths, vals)

SpecStore == InitStore /\ [][NextStore]_vars

----------------------------------------------------------------------------
(* The decode/encode boundary: a wire object is decoded, and the decoded     *)
(* state is encoded again.  JS objects are records; a property value whose  *)
(* omit flag is set carries a third component.                              *)

\* seedrandom(seed, {global: true}): the generator seeded with the seed
seedrandom(seed) == <<"prng", seed[2]>>

\* the keys of an object without the deleted ones: delete obj.k for k in ks
without(obj, ks) == [k \in DOMAIN obj \ ks |-> obj[k]]

\* {...obj, k1: v1, ...}: the keys of over replace or extend those of obj
spread(obj, over) ==
  [k \in DOMAIN obj \cup DOMAIN over |-> IF k \in DOMAIN over THEN over[k] ELSE obj[k]]

\* the state decoded from the wire object j, or the exception of genPathMap
decodeState(j) ==
  LET m == genPathMap(Some(j.varyingPaths), Some(j.varyingState))
  IN IF IsThrow(m) THEN m
     ELSE <<"return",
            without(spread(j, [varyingValues |-> j.varyingState,
                               translation |-> j.transr,
                               originalTranslation |-> clone(j.transr),
                               shapes |-> [i \in 1..Len(j.shapesr) |->
                                             Shape(j.shapesr[i][1], j.shapesr[i][2])],
                               varyingMap |-> m[2],
                               params |-> j.paramsr,
                               pendingMap |-> EmptyMap,
                               rng |-> seedrandom(j.rng)]),
                    {"shapesr", "transr", "paramsr"})>>

\* the test of pickBy(props, p => !p.omit) on one entry of props
notOmitted(entry) == Len(entry[2]) < 3

\* the params object with its optStatus assigned
newIter(p) == [p EXCEPT !.optStatus = <<"NewIter">>]

\* the wire object encoded from the state
encodeState(state) ==
  without(spread(state, [varyingState |-> state.varyingValues,
                         paramsr |-> newIter(state.params),
                         transr |-> state.originalTranslation,
                         shapesr |-> [i \in 1..Len(state.shapes) |->
                                        <<state.shapes[i][2],
                                          SelectSeq(state.shapes[i][3], notOmitted)>>]]),
          {"varyingMap", "translation", "varyingValues", "shapes", "params"})

\* wire objects
WireShapes ==
  {<<>>,
   <<(<<"Circle", <<(<<"r", FloatV(1)>>)>>>>)>>,
   <<(<<"Circle", <<(<<"r", FloatV(1)>>)>>>>),
     (<<"Text", <<(<<"string", StrV("a")>>), (<<"w", <<"FloatV", 2, TRUE>>>>)>>>>)>>}

WireVaryings ==
  {<<(<<>>), (<<>>)>>, <<(<<pAx>>), (<<7>>)>>, <<(<<pAx, pAr>>), (<<7, 8>>)>>,
   <<(<<pAx>>), (<<>>)>>}

WireObjects ==
  {[rng |-> <<"seed", seed>>,
    varyingPaths |-> vi[1],
    varyingState |-> vi[2],
    transr |-> Translation(OptEval(Fix(1)), av, Done(FloatV(2)), Done(FloatV(1))),
    paramsr |-> [optStatus |-> <<status>>, weight |-> 1],
    shapesr |-> ss] :
     seed \in {"a", "b"}, vi \in WireVaryings, av \in AvCells,
     status \in {"NewIter", "UnconstrainedRunning", "EPConverged"}, ss \in WireShapes}

InitCodec ==
  /\ json \in WireObjects
  /\ translation = [n \in {} |-> 0]
  /\ varyingPaths = <<>>
  /\ varyingValues = <<>>
  /\ varyingMap = EmptyMap
  /\ params = [lastGradient |-> None, lastGradientPreconditioned |-> None]
  /\ shapePaths = <<>>
  /\ shapeOrdering = <<>>
  /\ shapes = <<>>
  /\ pc = "wire"
  /\ trans = [n \in {} |-> 0]
  /\ shapeExprs = <<>>
  /\ shapesEvaled = <<>>
  /\ evals = EmptyMap
  /\ pre = [json |-> json]
  /\ call = <<"none">>
  /\ ret = <<"none">>
  /\ hist = <<>>

decodeStateCall ==
  /\ pc = "wire"
  /\ call' = <<"decodeState">>
  /\ ret' = decodeState(json)
  /\ pc' = IF IsThrow(decodeState(json)) THEN "threw" ELSE "decoded"
  /\ UNCHANGED <<stateVars, trans, shapeExprs, shapesEvaled, evals, pre, hist, json>>

\* state.params is the paramsr object of the wire object: the assignment of
\* line 1083 is made on that object
encodeStateCall ==
  /\ pc = "decoded"
  /\ call' = <<"encodeState">>
  /\ ret' = <<"return", encodeState(ret[2])>>
  /\ json' = [json EXCEPT !.paramsr = newIter(json.paramsr)]
  /\ pc' = "encoded"
  /\ UNCHANGED <<stateVars, trans, shapeExprs, shapesEvaled, evals, pre, hist>>

NextCodec == decodeStateCall \/ encodeStateCall

SpecCodec == InitCodec /\ [][NextCodec]_vars

----------------------------------------------------------------------------
(* Properties of a pass *)

\* the paths of the cells (field expressions and shape properties) of a translation
CellPaths(t) ==
  UNION {
    {FieldPath(n, f) : f \in {g \in DOMAIN t[n] : Tag(t[n][g]) = "FExpr"}}
      \cup UNION {{PropertyPath(n, f, t[n][f][2][2][i][1]) : i \in 1..Len(t[n][f][2][2])} :
                    f \in {g \in DOMAIN t[n] : Tag(t[n][g]) = "FGPI"}} :
    n \in DOMAIN t}

\* the TagExpr held by the cell at p
cellAt(t, p) == findExpr(t, p)

VaryingPathSet == {varyingPaths[i] : i \in 1..Len(varyingPaths)}

\* C1: when evalShapes(s) has returned, s.translation is what it was before the
\* call, whatever the varying paths of s are.
PurityOfPass == pc = "done" => translation = pre.translation

\* C2: when evalShapes(s) has raised an error, the translation, the varying map
\* and the shapes of s are what they were before the call.
FailedPassLeavesInputsUnchanged ==
  pc = "threw" =>
    /\ translation = pre.translation
    /\ varyingMap = pre.varyingMap
    /\ shapes = pre.shapes

\* C3: when evalShapes(s) has returned, every cell of s.translation that held
\* OptEval(e) before the call and is not a varying path still holds OptEval(e).
CacheIsolation ==
  pc = "done" =>
    \A p \in CellPaths(pre.translation) :
      (Tag(cellAt(pre.translation, p)) = "OptEval" /\ p \notin VaryingPathSet)
        => cellAt(translation, p) = cellAt(pre.translation, p)

\* C6: within one pass the expression of each field and of each property is
\* evaluated at most once.
EvaluateAtMostOnce == \A k \in DOMAIN evals : evals[k] <= 1

\* C7: the shapes returned by evalShapes(s) are as many as s.shapeOrdering, and
\* the name property of the k-th shape is the k-th name of s.shapeOrdering.
ShapeOrderingHolds ==
  pc = "done" =>
    /\ Len(ret[2]) = Len(shapeOrdering)
    /\ \A k \in 1..Len(shapeOrdering) :
         /\ Tag(ret[2][k]) = "Shape"
         /\ dictHas(ret[2][k][3], "name")
         /\ dictGet(ret[2][k][3], "name") = StrV(shapeOrdering[k])

\* C8: evalShapes(s) returns no state when s.shapeOrdering contains a name that
\* is the name property of none of the evaluated shapes.
MissingShapeNameIsFatal ==
  pc = "done" =>
    \A k \in 1..Len(shapeOrdering) :
      \E i \in 1..Len(shapesEvaled) :
        /\ dictHas(shapesEvaled[i][3], "name")
        /\ dictGet(shapesEvaled[i][3], "name") = StrV(shapeOrdering[k])

----------------------------------------------------------------------------
(* Properties of the resolver *)

\* the calls of resolvePath made so far
Calls == 1..Len(hist)

\* the value a GPI result carries for the property prop
gpiProp(r, prop) == dictGet(r[2][2], prop)

\* C4: resolvePath of a path whose key is in the varying map returns
\* Val(FloatV) of the map's value and writes nothing, whatever the translation
\* holds at the path; in the GPI resolved from a FieldPath, every Done or Pending
\* property whose PropertyPath is in the varying map is the FloatV of the map's value.
VaryingOverridePrecedence ==
  \A i \in Calls :
    LET h == hist[i]
        k == JSONstringify(h.path)
    IN /\ k \in DOMAIN varyingMap =>
            /\ h.ret = Val(FloatV(varyingMap[k]))
            /\ h.after = h.before
       /\ (k \notin DOMAIN varyingMap /\ Tag(h.path) = "FieldPath" /\ Tag(h.ret) = "GPI") =>
            \A j \in 1..Len(findExpr(h.before, h.path)[2][2]) :
              LET prop == findExpr(h.before, h.path)[2][2][j]
                  pk == JSONstringify(PropertyPath(h.path[2][1], h.path[2][2], prop[1]))
              IN (Tag(prop[2]) \in {"Done", "Pending"} /\ pk \in DOMAIN varyingMap)
                   => gpiProp(h.ret, prop[1]) = FloatV(varyingMap[pk])

\* a varying path was resolved while the translation held another Done(FloatV)
\* at it, and a shape with that Done property was resolved to a GPI
VaryingOverrideWitness ==
  /\ \E i \in Calls :
       /\ JSONstringify(hist[i].path) \in DOMAIN varyingMap
       /\ Tag(hist[i].path) = "PropertyPath"
       /\ Tag(cellAt(hist[i].before, hist[i].path)) = "Done"
       /\ cellAt(hist[i].before, hist[i].path)
            # Done(FloatV(varyingMap[JSONstringify(hist[i].path)]))
       /\ hist[i].ret = Val(FloatV(varyingMap[JSONstringify(hist[i].path)]))
  /\ \E i \in Calls :
       /\ hist[i].path = pAshape
       /\ Tag(hist[i].ret) = "GPI"
       /\ JSONstringify(pAr) \in DOMAIN varyingMap
       /\ Tag(cellAt(hist[i].before, pAr)) = "Done"
       /\ cellAt(hist[i].before, pAr) # Done(FloatV(varyingMap[JSONstringify(pAr)]))
       /\ gpiProp(hist[i].ret, "r") = FloatV(varyingMap[JSONstringify(pAr)])

\* the call i resolved a FieldPath or PropertyPath that is not varying, found
\* OptEval at its cell and returned a Val
FirstResolution(i) ==
  /\ JSONstringify(hist[i].path) \notin DOMAIN varyingMap
  /\ Tag(hist[i].path) \in {"FieldPath", "PropertyPath"}
  /\ Tag(cellAt(hist[i].before, hist[i].path)) = "OptEval"
  /\ Tag(hist[i].ret) = "Val"

\* C5: after the first resolvePath of a non-varying path whose cell holds
\* OptEval(e) and evaluates to a Val v the cell is Done(v); a later resolvePath of
\* the path returns v and does not evaluate e again; a Done cell never reverts.
MemoizationCorrect ==
  \A i \in Calls :
    /\ FirstResolution(i) =>
         /\ cellAt(hist[i].after, hist[i].path) = Done(hist[i].ret[2])
         /\ \A j \in Calls :
              (j > i /\ hist[j].path = hist[i].path) =>
                /\ hist[j].ret = hist[i].ret
                /\ hist[j].evalsAfter[JSONstringify(hist[i].path)]
                     = hist[i].evalsAfter[JSONstringify(hist[i].path)]
    /\ \A p \in CellPaths(hist[i].before) :
         Tag(cellAt(hist[i].before, p)) = "Done" => Tag(cellAt(hist[i].after, p)) = "Done"

\* a path whose cell held OptEval was resolved twice and the second call returned
\* the value of the first
MemoizationWitness ==
  \E i \in Calls : \E j \in Calls :
    /\ j > i
    /\ FirstResolution(i)
    /\ hist[j].path = hist[i].path
    /\ hist[j].ret = hist[i].ret
    /\ cellAt(hist[j].before, hist[j].path) = Done(hist[i].ret[2])

----------------------------------------------------------------------------
(* Properties of the operator table *)

Scalars == {"FloatV", "IntV"}

\* the binary table: the operators that have a rule for operands of kinds k1 and k2
TableRule(op, k1, k2) ==
  \/ k1 = "IntV" /\ k2 = "IntV"
  \/ k1 \in Scalars /\ k2 \in Scalars /\ op \in {"BPlus", "BMinus", "Multiply", "Divide"}
  \/ k1 \in Scalars /\ k2 = "VectorV" /\ op = "Multiply"
  \/ k1 = "VectorV" /\ k2 \in Scalars /\ op = "Divide"
  \/ k1 = "VectorV" /\ k2 = "VectorV" /\ op \in {"BPlus", "BMinus"}

\* the kind of value the table states for a cell
StatedKind(op, k1, k2) ==
  IF k1 = "VectorV" \/ k2 = "VectorV" THEN "VectorV"
  ELSE IF k1 = "IntV" /\ k2 = "IntV" /\ op # "Divide" THEN "IntV"
  ELSE "FloatV"

\* C9: evalBinOp raises an error for every operator and operand kinds for which
\* the binary table has no rule.
OperatorHolesRaise ==
  (Tag(call) = "evalBinOp" /\ ~TableRule(call[2], Tag(call[3]), Tag(call[4])))
    => IsThrow(ret)

\* C10: Multiply(IntV n, VectorV v) returns the VectorV n*v, Divide(VectorV v,
\* IntV n) returns the VectorV v/n, and every cell of the table returns a value
\* of the stated kind.
IntegerPromotionAgainstVectors ==
  Tag(call) = "evalBinOp" =>
    LET op == call[2]
        v1 == call[3]
        v2 == call[4]
    IN /\ (op = "Multiply" /\ Tag(v1) = "IntV" /\ Tag(v2) = "VectorV")
            => ret = VectorV(vmul(constOf(Contents(v1)), Contents(v2)))
       /\ (op = "Divide" /\ Tag(v1) = "VectorV" /\ Tag(v2) = "IntV")
            => ret = VectorV(vdiv(Contents(v1), constOf(Contents(v2))))
       /\ TableRule(op, Tag(v1), Tag(v2))
            => (HasContents(ret) /\ Tag(ret) = StatedKind(op, Tag(v1), Tag(v2)))

----------------------------------------------------------------------------
(* Properties of the access expressions *)

\* the value cached at A.v once an access expression has resolved it
resolvedAv == Contents(findExpr(trans, pAv))

\* the call made was the VectorAccess A.v[i] on a vector or a list of vectors
IsVectorAccessCall ==
  /\ call[1] = "evalExpr"
  /\ Tag(call[2]) = "VectorAccess"
  /\ call[2][2][2] \in IndexLits
  /\ Tag(findExpr(trans, pAv)) = "Done"
  /\ Tag(resolvedAv) \in {"VectorV", "LListV"}

\* C11: a VectorAccess with index i into a vector or a list of vectors of length
\* len returns element i when 0 <= i < len and raises otherwise, at i = -1 and
\* at i = len in particular.
VectorAccessBounds ==
  IsVectorAccessCall =>
    LET i == intOf(call[2][2][2])
        arr == Contents(resolvedAv)
    IN IF 0 <= i /\ i < Len(arr)
       THEN ret = Val(<<IF Tag(resolvedAv) = "LListV" THEN "VectorV" ELSE "FloatV",
                        arr[i + 1]>>)
       ELSE IsThrow(ret)

\* the call made was the MatrixAccess of index literals into a matrix
IsMatrixAccessCall ==
  /\ call[1] = "evalExpr"
  /\ Tag(call[2]) = "MatrixAccess"
  /\ \A k \in 1..Len(call[2][2][2]) : call[2][2][2][k] \in IndexLits
  /\ Tag(findExpr(trans, pAv)) = "Done"
  /\ Tag(resolvedAv) = "MatrixV"

\* C12: a MatrixAccess into a rows x cols matrix returns FloatV(m[i][j]) when it
\* has exactly two indices with 0 <= i < rows and 0 <= j < cols, and raises
\* otherwise.
MatrixAccessBounds ==
  IsMatrixAccessCall =>
    LET idx == call[2][2][2]
        m == Contents(resolvedAv)
    IN IF /\ Len(idx) = 2
          /\ 0 <= intOf(idx[1]) /\ intOf(idx[1]) < Len(m)
          /\ 0 <= intOf(idx[2]) /\ intOf(idx[2]) < Len(m[intOf(idx[1]) + 1])
       THEN ret = Val(FloatV(m[intOf(idx[1]) + 1][intOf(idx[2]) + 1]))
       ELSE IsThrow(ret)

\* the last entry of a matrix with more than one row and more than one
\* column was read
MatrixAccessWitness ==
  /\ IsMatrixAccessCall
  /\ Len(call[2][2][2]) = 2
  /\ Len(Contents(resolvedAv)) > 1
  /\ Len(Contents(resolvedAv)[1]) > 1
  /\ intOf(call[2][2][2][1]) = Len(Contents(resolvedAv)) - 1
  /\ intOf(call[2][2][2][2]) = Len(Contents(resolvedAv)[1]) - 1
  /\ ret = Val(FloatV(Contents(resolvedAv)[Len(Contents(resolvedAv))]
                                          [Len(Contents(resolvedAv)[1])]))

----------------------------------------------------------------------------
(* Properties of the path store *)

\* the path p names the cached float v in the translation t
namesDoneFloat(t, p, v) ==
  CASE Tag(p) = "FieldPath" ->
         /\ Tag(t[p[2][1]][p[2][2]]) = "FExpr"
         /\ findExpr(t, p) = Done(FloatV(v))
    [] Tag(p) = "PropertyPath" -> findExpr(t, p) = Done(FloatV(v))
    [] Tag(p) = "AccessPath" ->
         LET cell == findExpr(t, p[2][1])
             elem == Contents(Contents(cell))[p[2][2][1] + 1]
         IN IF Tag(cell) = "OptEval" THEN elem = Fix(v) ELSE elem = v

pathExists(t, p) ==
  /\ p[2][1] \in DOMAIN t
  /\ p[2][2] \in DOMAIN t[p[2][1]]
  /\ Tag(p) = "PropertyPath" =>
       /\ Tag(t[p[2][1]][p[2][2]]) = "FGPI"
       /\ dictHas(t[p[2][1]][p[2][2]][2][2], p[2][3])

\* C14: findExpr raises an error when the name, the field or the property of
\* the path does not exist; it returns no undefined entry.
UnresolvedPathsFailOnRead ==
  (call[1] = "findExpr" /\ Tag(call[2]) \in {"FieldPath", "PropertyPath"}
     /\ ~pathExists(pre.translation, call[2]))
    => IsThrow(ret)

\* C15: insertExpr on an access path with two indices, or on an access path
\* into an access path, raises an error and leaves the translation unchanged.
TwoIndexWritesRejected ==
  (call[1] = "insertExpr" /\ Tag(call[2]) = "AccessPath"
     /\ (Len(call[2][2][2]) = 2 \/ Tag(call[2][2][1]) = "AccessPath"))
    => (IsThrow(ret) /\ trans = pre.translation)

\* the map that sends the key of paths[k] to the value of its last occurrence
IsMapOf(r, ps, vs) ==
  /\ r[1] = "map"
  /\ \A k \in 1..Len(ps) :
       /\ JSONstringify(ps[k]) \in DOMAIN r[2]
       /\ \E j \in k..Len(ps) :
            /\ ps[j] = ps[k]
            /\ \A l \in (j + 1)..Len(ps) : ps[l] # ps[k]
            /\ r[2][JSONstringify(ps[k])] = vs[j]

\* C17, as stated: genPathMap raises when both arrays are given and their
\* lengths differ, returns an empty map when both are empty or both are
\* missing, and in every other case returns the map of paths[k] to values[k].
PathMapLengthLaw ==
  call[1] = "genPathMap" =>
    LET paths == call[2]
        vals == call[3]
    IN IF (~IsSome(paths) /\ ~IsSome(vals))
            \/ (IsSome(paths) /\ IsSome(vals) /\ paths[1] = <<>> /\ vals[1] = <<>>)
         THEN ret = <<"map", EmptyMap>>
       ELSE IF IsSome(paths) /\ IsSome(vals) /\ Len(paths[1]) # Len(vals[1])
         THEN IsThrow(ret)
       ELSE /\ ~IsThrow(ret)
            /\ IsMapOf(ret, IF IsSome(paths) THEN paths[1] ELSE <<>>,
                            IF IsSome(vals) THEN vals[1] ELSE <<>>)

\* C17, amended: genPathMap returns an empty map when either array is missing,
\* raises when both are given and their lengths differ, and otherwise returns
\* the map of paths[k] to values[k], with exactly the keys of paths.
PathMapLengthLawAmended ==
  call[1] = "genPathMap" =>
    LET paths == call[2]
        vals == call[3]
    IN IF ~IsSome(paths) \/ ~IsSome(vals) THEN ret = <<"map", EmptyMap>>
       ELSE IF Len(paths[1]) # Len(vals[1]) THEN IsThrow(ret)
       ELSE /\ ~IsThrow(ret)
            /\ IsMapOf(ret, paths[1], vals[1])
            /\ DOMAIN ret[2] = {JSONstringify(paths[1][k]) : k \in 1..Len(paths[1])}

\* a map was built from a path given twice, with two different values
PathMapWitness ==
  /\ call[1] = "genPathMap"
  /\ call[2] = Some(<<pAx, pAx>>)
  /\ call[3] = Some(<<7, 8>>)
  /\ ret = <<"map", [k \in {JSONstringify(pAx)} |-> 8]>>

\* a cell with Pending replaced by Done
doneOf(te) == IF Tag(te) = "Pending" THEN Done(Contents(te)) ELSE te

\* a translation with every Pending cell replaced by the Done cell of the same value
asDone(t) ==
  [n \in DOMAIN t |->
     [f \in DOMAIN t[n] |->
        IF Tag(t[n][f]) = "FExpr" THEN FExpr(doneOf(Contents(t[n][f])))
        ELSE FGPI(t[n][f][2][1],
                  [i \in 1..Len(t[n][f][2][2]) |->
                     <<t[n][f][2][2][i][1], doneOf(t[n][f][2][2][i][2])>>])]]

\* the call of the store made, on the translation t
storeOutcome(t) ==
  IF call[1] = "insertExpr" THEN insertExpr(call[2], call[3], t)
  ELSE insertVaryings(t, call[2])

\* C18: a Pending cell is treated exactly like a Done cell: a write of
\* insertExpr or insertVaryings fails or succeeds as it does on the translation
\* with Done in the place of Pending, and leaves the same values.
PendingTreatedLikeDone ==
  call[1] \in {"insertExpr", "insertVaryings"} =>
    /\ IsThrow(ret) = IsThrow(storeOutcome(asDone(pre.translation)).r)
    /\ ~IsThrow(ret) => asDone(trans) = storeOutcome(asDone(pre.translation)).t

----------------------------------------------------------------------------
(* Properties of the decode/encode boundary *)

WireKeys == {"rng", "varyingState", "transr", "paramsr", "shapesr"}

InMemoryKeys ==
  {"varyingValues", "translation", "shapes", "params", "varyingMap",
   "originalTranslation", "pendingMap"}

\* C16: encodeState(decodeState(json)) carries under rng, varyingState, transr,
\* paramsr and shapesr the values json had when it was decoded, and has none of
\* the in-memory fields.
RoundTrip ==
  pc = "encoded" =>
    /\ \A k \in WireKeys : k \in DOMAIN ret[2] /\ ret[2][k] = pre.json[k]
    /\ DOMAIN ret[2] \cap InMemoryKeys = {}

----------------------------------------------------------------------------
(* The evaluator that never writes Done back: the value of a path and of an *)
(* expression in a translation that stays as it is.                         *)

RECURSIVE valueOfExpr(_, _, _)
RECURSIVE valueOfExprs(_, _, _)
RECURSIVE valueOfPath(_, _, _)
RECURSIVE valueOfProps(_, _, _, _, _)

\* the ArgVals of the expressions es, or the first exception from the left
valueOfExprs(es, t, V) ==
  IF Len(es) = 0 THEN <<"list", <<>>>>
  ELSE LET h == valueOfExpr(Head(es), t, V)
           rest == valueOfExprs(Tail(es), t, V)
       IN IF IsThrow(h) THEN h
          ELSE IF IsThrow(rest) THEN rest
          ELSE <<"list", <<h>> \o rest[2]>>

valueOfExpr(e, t, V) ==
  LET v1 == IF HasPath(e) THEN valueOfPath(PathOf(e), t, V) ELSE <<"none">>
      argVals == valueOfExprs(SubExprs(e), t, V)
  IN IF IsThrow(v1) THEN v1
     ELSE IF IsThrow(argVals) THEN argVals
     ELSE applyExpr(e, v1, argVals[2])

\* the value of a cell's expression as a Val, or the exception
valOnly(r) ==
  IF IsThrow(r) \/ Tag(r) = "Val" THEN r
  ELSE Throw("Field expression evaluated to GPI when this case was eliminated")

\* the values of the properties from the i-th on of the FGPI at path
valueOfProps(path, props, i, t, V) ==
  IF i > Len(props) THEN <<"props", <<>>>>
  ELSE LET propertyPath == PropertyPath(path[2][1], path[2][2], props[i][1])
           v == IF Tag(props[i][2]) = "OptEval"
                  THEN valOnly(valueOfPath(propertyPath, t, V))
                ELSE IF JSONstringify(propertyPath) \in DOMAIN V
                  THEN Val(FloatV(V[JSONstringify(propertyPath)]))
                ELSE Val(Contents(props[i][2]))
           rest == valueOfProps(path, props, i + 1, t, V)
       IN IF IsThrow(v) THEN v
          ELSE IF IsThrow(rest) THEN rest
          ELSE <<"props", <<(<<props[i][1], v[2]>>)>> \o rest[2]>>

valueOfPath(path, t, V) ==
  IF JSONstringify(path) \in DOMAIN V THEN floatVal(V[JSONstringify(path)])
  ELSE IF Tag(path) = "AccessPath" THEN Throw("TODO")
  ELSE LET cell == findExpr(t, path)
       IN CASE IsThrow(cell) -> cell
            [] Tag(cell) = "undefined" -> Throw("TypeError")
            [] Tag(cell) = "FGPI" ->
                 LET ps == valueOfProps(path, cell[2][2], 1, t, V)
                 IN IF IsThrow(ps) THEN ps ELSE GPI(cell[2][1], ps[2])
            [] Tag(cell) = "OptEval" -> valOnly(valueOfExpr(Contents(cell), t, V))
            [] Tag(cell) \in {"Done", "Pending"} -> Val(Contents(cell))
            [] OTHER -> Throw("Unexpected tag")

====
